---- MODULE Spec2Model ----
(***************************************************************************)
(* Model of src/script.js: the choropleth map of London boroughs and       *)
(* postcode areas.  The state is the script's module-level variables and   *)
(* what Leaflet holds for it (which layers are on the map, the style each  *)
(* path was last given); there is one action per event handler.            *)
(*                                                                         *)
(* Conventions.  A price value is a rational [num, den] (the 'all' average *)
(* is a division).  Decimal style numbers are held in tenths (weight 1.5   *)
(* is 15, fillOpacity 0.6 is 6).  A style key the code does not set is     *)
(* "unset".  Label texts are written without the pound sign.               *)
(***************************************************************************)
EXTENDS Integers, Sequences, FiniteSets, TLC

\* ------------------------------------------------------------ configuration

MAP_ZOOM_DEFAULT == 10
MAP_ZOOM_SELECTED == 12

\* Size of the two feature collections the load delivers.
NumBoroughs == 2
NumPostcodes == 2

Boroughs == {<<"borough", i>> : i \in 1..NumBoroughs}
Postcodes == {<<"postcode", i>> : i \in 1..NumPostcodes}
Features == Boroughs \cup Postcodes
NullFeature == <<"null", 0>>

\* Values the UI controls and the map deliver in the model.
YearInputs == {2025, 2026}
TypeInputs == {"all", "flat"}
PriceInputs == {600000, 5000000}
ModeInputs == {"price", "crime"}
ZoomInputs == {10, 11, 12}

VARIABLES
    phase,                  \* loadData: "loading", "ready" (try block done), "failed" (catch ran)
    currentYear, currentType, maxPrice, currentMode, currentZoom,
    boroughData,            \* name -> metric record; the names it holds are its DOMAIN
    boroughLayer,           \* TRUE once L.geoJSON created it (the variable is defined)
    postcodeLayer,
    zoomListener,           \* map.on('zoomend', handleZoomChange) was executed
    mapLayers,              \* [borough, postcode: BOOLEAN, labels: set of postcodes] on the map
    activeBoroughGeometry,  \* the focused borough feature, or NullFeature
    boroughStyle,           \* borough -> the style its path was last given
    postcodeCall,           \* postcode -> outcome of stylePostcode in the last handler
    resolved,               \* feature -> local 'value' of getFeatureStyle in the last handler
    legend,                 \* legendContent: sequence of [color, label]
    alerts,                 \* number of alert() dialogs shown
    earlyCalls,             \* core operations executed while the load had not succeeded
    lastEvent,              \* [handler, zoomend]: the handler that ran last
    lastOps,                \* addTo/removeLayer calls of the last handler, in order
    turfLoaded,             \* typeof turf !== 'undefined'
    badBorough              \* the borough whose polygon turf cannot evaluate (the last
                            \* of the collection, when there is one), or NullFeature

vars == <<phase, currentYear, currentType, maxPrice, currentMode, currentZoom,
          boroughData, boroughLayer, postcodeLayer, zoomListener, mapLayers,
          activeBoroughGeometry, boroughStyle, postcodeCall, resolved, legend,
          alerts, earlyCalls, lastEvent, lastOps, turfLoaded, badBorough>>

\* ------------------------------------------------------------ numbers

Rat(n, d) == [num |-> n, den |-> d]
Zero == Rat(0, 1)
\* v > k and v = k for a rational v with positive denominator and an integer k
RatGt(v, k) == v.num > k * v.den
RatEq(v, k) == v.num = k * v.den

RECURSIVE SumValues(_, _)
SumValues(f, S) ==
    IF S = {} THEN 0
    ELSE LET k == CHOOSE x \in S : TRUE IN f[k] + SumValues(f, S \ {k})

\* Math.round: the nearest integer, halves upwards; n / d with d > 0
Round(n, d) == (2 * n + d) \div (2 * d)

\* ------------------------------------------------------------ color ramps

getPriceColorWeak(price) ==
    IF price.num >= 1500000 * price.den THEN "#431407"
    ELSE IF price.num >= 1200000 * price.den THEN "#7c2d12"
    ELSE IF price.num >= 1000000 * price.den THEN "#c2410c"
    ELSE IF price.num >= 800000 * price.den THEN "#ea580c"
    ELSE IF price.num >= 600000 * price.den THEN "#f97316"
    ELSE IF price.num >= 450000 * price.den THEN "#fb923c"
    ELSE IF price.num >= 300000 * price.den THEN "#fdba74"
    ELSE "#fed7aa"

getPriceColor(price) ==
    IF RatGt(price, 1500000) THEN "#431407"
    ELSE IF RatGt(price, 1200000) THEN "#7c2d12"
    ELSE IF RatGt(price, 1000000) THEN "#c2410c"
    ELSE IF RatGt(price, 800000) THEN "#ea580c"
    ELSE IF RatGt(price, 600000) THEN "#f97316"
    ELSE IF RatGt(price, 450000) THEN "#fb923c"
    ELSE IF RatGt(price, 300000) THEN "#fdba74"
    ELSE "#fed7aa"

\* value is a score in hundredths (0.37 is 37)
getScaleColor(value, startRGB, endRGB) ==
    LET ch(i) == Round(startRGB[i] * 100 + (endRGB[i] - startRGB[i]) * value, 100)
    IN "rgb(" \o ToString(ch(1)) \o ", " \o ToString(ch(2)) \o ", "
              \o ToString(ch(3)) \o ")"

getCrimeColor(value) == getScaleColor(value, <<255, 255, 255>>, <<220, 38, 38>>)
getCentralColor(value) == getScaleColor(value, <<255, 255, 255>>, <<37, 99, 235>>)
getCultureColor(value) == getScaleColor(value, <<255, 255, 255>>, <<217, 119, 6>>)

\* ------------------------------------------------------------ metric data

PropertyTypes == {"detached", "semi", "terraced", "flat"}
EmptyMap == [x \in {} |-> 0]

\* The synthetic generator: a full record (every year, every type, three
\* scores in hundredths), fixed per name.
getMockData(name) ==
    LET off == [t \in PropertyTypes |->
                   CASE t = "detached" -> 400000 [] t = "semi" -> 200000
                     [] t = "terraced" -> 100000 [] OTHER -> 0]
        shift == IF name[1] = "borough" THEN 50000 ELSE 0
    IN [prices |-> [y \in 2015..2026 |->
                       [t \in PropertyTypes |->
                           200000 + 150000 * name[2] + shift + (y - 2015) * 10000 + off[t]]],
        crime |-> (37 * name[2] + 11) % 101,
        central |-> (53 * name[2] + 29) % 101,
        culture |-> (71 * name[2] + 5) % 101]

\* london_data.json as delivered: absent (null), or sparse prices for the postcodes.
RealRecord(name) ==
    IF name[2] % 2 = 1
    THEN [prices |-> (2025 :> ("detached" :> 900000 @@ "flat" :> 500000))]
    ELSE [prices |-> (2025 :> EmptyMap @@ 2026 :> ("flat" :> 480000 @@ "semi" :> 0))]
RealDataInputs == {EmptyMap, [n \in Postcodes |-> RealRecord(n)]}

getCombinedData(name, realPropertyData) ==
    IF name \in DOMAIN realPropertyData
    THEN LET real == realPropertyData[name]
             mock == getMockData(name)
         IN [prices |-> real.prices, crime |-> mock.crime,
             central |-> mock.central, culture |-> mock.culture]
    ELSE getMockData(name)

\* ------------------------------------------------------------ styles

Style(fc, w, op, c, fo, int) ==
    [fillColor |-> fc, weight |-> w, opacity |-> op, color |-> c,
     fillOpacity |-> fo, interactive |-> int]
NoStyle == Style("none", 0, 0, "none", 0, "unset")

\* getFeatureStyle's local 'value' in price mode
priceValueAllFour(data) ==
    IF currentYear \in DOMAIN data.prices
    THEN LET prices == data.prices[currentYear]
         IN IF currentType = "all"
            THEN Rat(SumValues(prices, DOMAIN prices), 4)
            ELSE IF currentType \in DOMAIN prices
                 THEN Rat(prices[currentType], 1) ELSE Zero
    ELSE Zero

priceValue(data) ==
    IF currentYear \in DOMAIN data.prices
    THEN LET prices == data.prices[currentYear]
         IN IF currentType = "all"
            THEN IF Cardinality(DOMAIN prices) # 0
                 THEN Rat(SumValues(prices, DOMAIN prices), Cardinality(DOMAIN prices))
                 ELSE Zero
            ELSE IF currentType \in DOMAIN prices /\ prices[currentType] # 0
                 THEN Rat(prices[currentType], 1) ELSE Zero
    ELSE Zero

\* the value a call of getFeatureStyle leaves in 'value' (0 outside price mode)
featureValue(feature) ==
    IF feature \in DOMAIN boroughData /\ currentMode = "price"
    THEN priceValue(boroughData[feature]) ELSE Zero

getFeatureStyleNoCeiling(feature, defaultOpacity, weight, borderColor, fillOp) ==
    IF feature \notin DOMAIN boroughData
    THEN Style("#ccc", weight, 10, borderColor, 2, "unset")
    ELSE LET data == boroughData[feature]
             color == CASE currentMode = "price" -> getPriceColor(priceValue(data))
                        [] currentMode = "crime" -> getCrimeColor(data.crime)
                        [] currentMode = "central" -> getCentralColor(data.central)
                        [] currentMode = "culture" -> getCultureColor(data.culture)
                        [] OTHER -> "#ccc"
         IN Style(color, weight, 10, borderColor, fillOp, "unset")

getFeatureStyle(feature, defaultOpacity, weight, borderColor, fillOp) ==
    IF feature \notin DOMAIN boroughData
    THEN Style("#ccc", weight, 10, borderColor, 2, "unset")
    ELSE LET data == boroughData[feature]
             value == priceValue(data)
             color == CASE currentMode = "price" ->
                             IF value.num > maxPrice * value.den
                             THEN "#431407" ELSE getPriceColor(value)
                        [] currentMode = "crime" -> getCrimeColor(data.crime)
                        [] currentMode = "central" -> getCentralColor(data.central)
                        [] currentMode = "culture" -> getCultureColor(data.culture)
                        [] OTHER -> "#ccc"
         IN Style(color, weight, 10, borderColor, fillOp, "unset")

styleBorough(feature) ==
    IF activeBoroughGeometry # NullFeature
    THEN IF feature = activeBoroughGeometry
         THEN Style("transparent", 20, 10, "#666", 0, "false")
         ELSE Style("#f5f5f5", 10, 10, "#ddd", 5, "false")
    ELSE getFeatureStyle(feature, 8, 20, "white", 6)

\* The geometry delivered: the bounding-box centre of postcode i lies in
\* borough ((i - 1) mod NumBoroughs) + 1.
centreInside(feature, polygon) == ((feature[2] - 1) % NumBoroughs) + 1 = polygon[2]

\* turf.center(feature) tested by turf.booleanPointInPolygon against the focus
\* polygon: "true", "false", or "throws" when turf cannot evaluate the polygon.
booleanPointInPolygon(feature, polygon) ==
    IF polygon = badBorough THEN "throws"
    ELSE IF centreInside(feature, polygon) THEN "true" ELSE "false"

Returned(style) == [status |-> "returned", style |-> style]
Threw == [status |-> "threw", style |-> NoStyle]
NoCall == [status |-> "none", style |-> NoStyle]
HiddenStyle == Style("transparent", 0, 0, "transparent", 0, "false")

stylePostcodeShowAll(feature) ==
    IF activeBoroughGeometry # NullFeature /\ turfLoaded
    THEN LET isInside == booleanPointInPolygon(feature, activeBoroughGeometry)
         IN IF isInside = "throws" THEN Threw
            ELSE Returned(getFeatureStyle(feature, 9, 15, "#fff", 9))
    ELSE Returned(getFeatureStyle(feature, 9, 10, "#eee", 8))

\* the outcome of one call: the style returned, or the error turf raised
stylePostcode(feature) ==
    IF activeBoroughGeometry # NullFeature /\ turfLoaded
    THEN LET isInside == booleanPointInPolygon(feature, activeBoroughGeometry)
         IN IF isInside = "throws" THEN Threw
            ELSE IF isInside = "false" THEN Returned(HiddenStyle)
            ELSE Returned(getFeatureStyle(feature, 9, 15, "#fff", 9))
    ELSE Returned(getFeatureStyle(feature, 9, 10, "#eee", 8))

\* ------------------------------------------------------------ legend

LegendGrades == <<0, 400000, 500000, 600000, 800000, 1000000, 1200000, 1500000>>
LegendLabels == <<"< 400k", "400k+", "500k+", "600k+", "800k+", "1M+", "1.2M+", "> 1.5M">>

updateLegend ==
    IF currentMode = "price"
    THEN [i \in 1..Len(LegendGrades) |->
             [color |-> getPriceColor(Rat(LegendGrades[i] + 1, 1)),
              label |-> LegendLabels[i]]]
    ELSE LET colors == CASE currentMode = "crime" -> <<"white", "#dc2626">>
                         [] currentMode = "central" -> <<"white", "#2563eb">>
                         [] OTHER -> <<"white", "#d97706">>
         IN <<[color |-> "linear-gradient(to right, " \o colors[1] \o ", "
                          \o colors[2] \o ")",
               label |-> "Low to High"]>>

\* ------------------------------------------------------------ layers

BoroughTarget == <<"boroughLayer", 0>>
PostcodeTarget == <<"postcodeLayer", 0>>
\* one addTo / removeLayer call; was: the target was on the map when it was made
Op(name, target, was) == [op |-> name, target |-> target, was |-> was]
LabelOps(name, m) ==
    [i \in 1..NumPostcodes |-> Op(name, <<"label", i>>, <<"postcode", i>> \in m.labels)]

handleZoomChangeKeepCoarse(zoom, m) ==
    IF zoom >= MAP_ZOOM_SELECTED - 1
    THEN IF ~m.postcode
         THEN [layers |-> [m EXCEPT !.postcode = TRUE, !.labels = Postcodes],
               ops |-> <<Op("addTo", PostcodeTarget, m.postcode)>> \o LabelOps("addTo", m)]
         ELSE [layers |-> m, ops |-> <<>>]
    ELSE IF m.postcode
         THEN [layers |-> [m EXCEPT !.postcode = FALSE, !.labels = {}, !.borough = TRUE],
               ops |-> <<Op("removeLayer", PostcodeTarget, m.postcode)>>
                       \o LabelOps("removeLayer", m)
                       \o (IF ~m.borough THEN <<Op("addTo", BoroughTarget, m.borough)>>
                           ELSE <<>>)]
         ELSE [layers |-> [m EXCEPT !.borough = TRUE],
               ops |-> IF ~m.borough THEN <<Op("addTo", BoroughTarget, m.borough)>>
                       ELSE <<>>]

handleZoomChangeLabelsAlways(zoom, m) ==
    IF zoom >= MAP_ZOOM_SELECTED - 1
    THEN [layers |-> [borough |-> FALSE, postcode |-> TRUE, labels |-> Postcodes],
          ops |-> (IF m.borough THEN <<Op("removeLayer", BoroughTarget, m.borough)>>
                   ELSE <<>>)
                  \o (IF ~m.postcode THEN <<Op("addTo", PostcodeTarget, m.postcode)>>
                      ELSE <<>>)
                  \o LabelOps("addTo", m)]
    ELSE [layers |-> [borough |-> TRUE, postcode |-> FALSE, labels |-> {}],
          ops |-> (IF m.postcode THEN <<Op("removeLayer", PostcodeTarget, m.postcode)>>
                   ELSE <<>>)
                  \o LabelOps("removeLayer", m)
                  \o (IF ~m.borough THEN <<Op("addTo", BoroughTarget, m.borough)>>
                      ELSE <<>>)]

\* the map's layers after the handler, and the calls it made, for map.getZoom() = zoom
handleZoomChange(zoom, m) ==
    IF zoom >= MAP_ZOOM_SELECTED - 1
    THEN LET ops1 == IF m.borough THEN <<Op("removeLayer", BoroughTarget, m.borough)>>
                     ELSE <<>>
             m1 == [m EXCEPT !.borough = FALSE]
         IN IF ~m1.postcode
            THEN [layers |-> [m1 EXCEPT !.postcode = TRUE, !.labels = Postcodes],
                  ops |-> ops1 \o <<Op("addTo", PostcodeTarget, m1.postcode)>>
                          \o LabelOps("addTo", m1)]
            ELSE [layers |-> m1, ops |-> ops1]
    ELSE LET ops1 == IF m.postcode
                     THEN <<Op("removeLayer", PostcodeTarget, m.postcode)>>
                          \o LabelOps("removeLayer", m)
                     ELSE <<>>
             m1 == IF m.postcode THEN [m EXCEPT !.postcode = FALSE, !.labels = {}] ELSE m
         IN IF ~m1.borough
            THEN [layers |-> [m1 EXCEPT !.borough = TRUE],
                  ops |-> ops1 \o <<Op("addTo", BoroughTarget, m1.borough)>>]
            ELSE [layers |-> m1, ops |-> ops1]

\* Called by the borough click handler; the labels stay as the zoom handler left them.
updatePostcodeLabels(m) == m

\* ------------------------------------------------------------ restyling

NoValue == Rat(0, 0)
NoCalls == [p \in Postcodes |-> NoCall]
NoValues == [f \in Features |-> NoValue]

\* postcodeLayer.setStyle(stylePostcode): eachLayer in order, ended by the first error
setStylePostcode ==
    [p \in Postcodes |->
        IF \E q \in Postcodes : q[2] < p[2] /\ stylePostcode(q).status = "threw"
        THEN NoCall ELSE stylePostcode(p)]

\* the features a restyle of the layers passes to getFeatureStyle
valuesOf(boroughsStyled) ==
    [f \in Features |->
        IF f \in Boroughs
        THEN IF boroughsStyled /\ activeBoroughGeometry = NullFeature
             THEN featureValue(f) ELSE NoValue
        ELSE IF postcodeCall[f].status = "returned" /\ postcodeCall[f].style # HiddenStyle
             THEN featureValue(f) ELSE NoValue]

Raised(calls) == \E p \in Postcodes : calls[p].status = "threw"

Event(h, z) == [handler |-> h, zoomend |-> z]

\* updateMapVisuals, read in the state the handler has produced so far
updateMapVisuals ==
    /\ boroughStyle' = IF boroughLayer THEN [b \in Boroughs |-> styleBorough(b)']
                       ELSE boroughStyle
    /\ postcodeCall' = IF postcodeLayer THEN setStylePostcode' ELSE NoCalls
    /\ resolved' = valuesOf(boroughLayer)'

EarlyRestyle ==
    IF phase = "ready" THEN {}
    ELSE (IF boroughLayer THEN {"styleBorough"} ELSE {})
         \cup (IF postcodeLayer THEN {"stylePostcode"} ELSE {})

\* ------------------------------------------------------------ handlers

Init ==
    /\ phase = "loading"
    /\ currentYear = 2025
    /\ currentType = "all"
    /\ maxPrice = 5000000
    /\ currentMode = "price"
    /\ currentZoom = MAP_ZOOM_DEFAULT
    /\ boroughData = EmptyMap
    /\ boroughLayer = FALSE
    /\ postcodeLayer = FALSE
    /\ zoomListener = FALSE
    /\ mapLayers = [borough |-> FALSE, postcode |-> FALSE, labels |-> {}]
    /\ activeBoroughGeometry = NullFeature
    /\ boroughStyle = [b \in Boroughs |-> NoStyle]
    /\ postcodeCall = NoCalls
    /\ resolved = NoValues
    /\ legend = <<>>
    /\ alerts = 0
    /\ earlyCalls = {}
    /\ lastEvent = Event("DOMContentLoaded", FALSE)
    /\ lastOps = <<>>
    /\ turfLoaded \in BOOLEAN
    /\ badBorough \in (IF turfLoaded THEN {NullFeature, <<"borough", NumBoroughs>>}
                       ELSE {NullFeature})

PriceInput(v) ==
    /\ maxPrice' = v
    /\ UNCHANGED <<phase, currentYear, currentType, currentMode, currentZoom, boroughData,
                   boroughLayer, postcodeLayer, zoomListener, mapLayers,
                   activeBoroughGeometry, legend, alerts, turfLoaded, badBorough>>
    /\ updateMapVisuals
    /\ earlyCalls' = earlyCalls \cup EarlyRestyle
    /\ lastEvent' = Event("control", FALSE)
    /\ lastOps' = <<>>

YearChange(y) ==
    /\ currentYear' = y
    /\ UNCHANGED <<phase, maxPrice, currentType, currentMode, currentZoom, boroughData,
                   boroughLayer, postcodeLayer, zoomListener, mapLayers,
                   activeBoroughGeometry, legend, alerts, turfLoaded, badBorough>>
    /\ updateMapVisuals
    /\ earlyCalls' = earlyCalls \cup EarlyRestyle
    /\ lastEvent' = Event("control", FALSE)
    /\ lastOps' = <<>>

TypeChange(t) ==
    /\ currentType' = t
    /\ UNCHANGED <<phase, maxPrice, currentYear, currentMode, currentZoom, boroughData,
                   boroughLayer, postcodeLayer, zoomListener, mapLayers,
                   activeBoroughGeometry, legend, alerts, turfLoaded, badBorough>>
    /\ updateMapVisuals
    /\ earlyCalls' = earlyCalls \cup EarlyRestyle
    /\ lastEvent' = Event("control", FALSE)
    /\ lastOps' = <<>>

\* updateLegend runs after updateMapVisuals, so not when that raised
ModeClick(m) ==
    /\ currentMode' = m
    /\ UNCHANGED <<phase, maxPrice, currentYear, currentType, currentZoom, boroughData,
                   boroughLayer, postcodeLayer, zoomListener, mapLayers,
                   activeBoroughGeometry, alerts, turfLoaded, badBorough>>
    /\ updateMapVisuals
    /\ legend' = IF Raised(postcodeCall') THEN legend ELSE updateLegend'
    /\ earlyCalls' = earlyCalls \cup EarlyRestyle
                     \cup (IF phase # "ready" /\ ~Raised(postcodeCall')
                           THEN {"updateLegend"} ELSE {})
    /\ lastEvent' = Event("control", FALSE)
    /\ lastOps' = <<>>

\* loadData, every await fulfilled and the try block run to its end
LoadSucceed(realPropertyData) ==
    /\ phase = "loading"
    /\ phase' = "ready"
    /\ boroughData' = [n \in Features |-> getCombinedData(n, realPropertyData)]
    /\ boroughLayer' = TRUE
    /\ postcodeLayer' = TRUE
    /\ zoomListener' = TRUE
    /\ mapLayers' = [mapLayers EXCEPT !.borough = TRUE]
    /\ lastOps' = <<Op("addTo", BoroughTarget, mapLayers.borough)>>
    /\ UNCHANGED <<currentYear, currentType, maxPrice, currentMode, currentZoom,
                   activeBoroughGeometry, alerts, earlyCalls, turfLoaded, badBorough>>
    /\ boroughStyle' = [b \in Boroughs |-> styleBorough(b)']
    /\ postcodeCall' = setStylePostcode'
    /\ resolved' = valuesOf(TRUE)'
    /\ legend' = updateLegend'
    /\ lastEvent' = Event("load", FALSE)

\* loadData, a fetch or a json() rejected: the catch block alone
LoadFailFetch ==
    /\ phase = "loading"
    /\ phase' = "failed"
    /\ alerts' = alerts + 1
    /\ lastEvent' = Event("loadError", FALSE)
    /\ lastOps' = <<>>
    /\ postcodeCall' = NoCalls
    /\ resolved' = NoValues
    /\ UNCHANGED <<currentYear, currentType, maxPrice, currentMode, currentZoom,
                   boroughData, boroughLayer, postcodeLayer, zoomListener, mapLayers,
                   activeBoroughGeometry, boroughStyle, legend, earlyCalls, turfLoaded,
                   badBorough>>

\* loadData, L.geoJSON(postcodeDataJson, ...) raised: the borough layer is
\* on the map, no postcode layer, no zoom listener, no legend
LoadFailPostcodes(realPropertyData) ==
    /\ phase = "loading"
    /\ phase' = "failed"
    /\ boroughData' = [n \in Features |-> getCombinedData(n, realPropertyData)]
    /\ boroughLayer' = TRUE
    /\ mapLayers' = [mapLayers EXCEPT !.borough = TRUE]
    /\ lastOps' = <<Op("addTo", BoroughTarget, mapLayers.borough)>>
    /\ alerts' = alerts + 1
    /\ UNCHANGED <<currentYear, currentType, maxPrice, currentMode, currentZoom,
                   postcodeLayer, zoomListener, activeBoroughGeometry, legend,
                   turfLoaded, badBorough>>
    /\ boroughStyle' = [b \in Boroughs |-> styleBorough(b)']
    /\ postcodeCall' = NoCalls
    /\ resolved' = valuesOf(TRUE)'
    /\ earlyCalls' = earlyCalls \cup {"styleBorough", "addTo"}
    /\ lastEvent' = Event("loadError", FALSE)

\* the map's zoomend event
ZoomEnd(zoom) ==
    /\ zoomListener
    /\ currentZoom' = zoom
    /\ mapLayers' = handleZoomChange(zoom, mapLayers).layers
    /\ lastOps' = handleZoomChange(zoom, mapLayers).ops
    /\ lastEvent' = Event("zoomend", TRUE)
    /\ postcodeCall' = NoCalls
    /\ resolved' = NoValues
    /\ UNCHANGED <<phase, currentYear, currentType, maxPrice, currentMode, boroughData,
                   boroughLayer, postcodeLayer, zoomListener, activeBoroughGeometry,
                   boroughStyle, legend, alerts, earlyCalls, turfLoaded, badBorough>>

\* A click on a borough path.  fitBounds either leaves the zoom alone or
\* animates (sync = 0: a zoomend, if any, arrives as a later event), or resets
\* the view at once and the zoomend handler runs inside the call (sync = zoom).
BoroughClick(feature, sync) ==
    /\ boroughLayer /\ mapLayers.borough
    /\ activeBoroughGeometry' = feature
    /\ LET zoomed == sync # 0 /\ zoomListener
           z == IF zoomed THEN handleZoomChange(sync, mapLayers)
                ELSE [layers |-> mapLayers, ops |-> <<>>]
       IN /\ currentZoom' = IF zoomed THEN sync ELSE currentZoom
          /\ lastOps' = z.ops
          /\ lastEvent' = Event("click", zoomed)
          /\ UNCHANGED <<phase, currentYear, currentType, maxPrice, currentMode,
                         boroughData, boroughLayer, postcodeLayer, zoomListener,
                         boroughStyle, legend, alerts, earlyCalls, turfLoaded,
                         badBorough>>
          /\ postcodeCall' = IF postcodeLayer THEN setStylePostcode' ELSE NoCalls
          /\ resolved' = valuesOf(FALSE)'
          /\ mapLayers' = IF Raised(postcodeCall') THEN z.layers
                          ELSE updatePostcodeLabels(z.layers)

Next ==
    \/ \E v \in PriceInputs : PriceInput(v)
    \/ \E y \in YearInputs : YearChange(y)
    \/ \E t \in TypeInputs : TypeChange(t)
    \/ \E m \in ModeInputs : ModeClick(m)
    \/ \E real \in RealDataInputs : LoadSucceed(real)
    \/ LoadFailFetch
    \/ \E real \in RealDataInputs : LoadFailPostcodes(real)
    \/ \E zoom \in ZoomInputs : ZoomEnd(zoom)
    \/ \E b \in Boroughs, sync \in ZoomInputs \cup {0} : BoroughClick(b, sync)

Spec == Init /\ [][Next]_vars

\* ------------------------------------------------------------ style resolution alone

\* The state a successful load leaves, for metric data drawn from a wider
\* set: the record of the first postcode holds any prices for 2025 around the
\* break points of the ramp, or is missing (a feature without a name).
PriceBreaks == <<0, 300000, 450000, 600000, 800000, 1000000, 1200000, 1500000>>
RampColors == <<"#fed7aa", "#fdba74", "#fb923c", "#f97316", "#ea580c", "#c2410c",
                "#7c2d12", "#431407">>
StylePriceInputs ==
    {PriceBreaks[i] + d : i \in 1..Len(PriceBreaks), d \in {0, 1}}
        \cup {500000, 700000, 900000}
StyleTypeInputs == {"all", "detached", "semi"}
PartialMaps(K, V) == UNION {[S -> V] : S \in SUBSET K}
StyleFlatInputs == {500000, 600001}
StyleRecords ==
    {[prices |-> (2025 :> (d @@ f)), crime |-> 50, central |-> 50, culture |-> 50] :
        d \in PartialMaps({"detached"}, StylePriceInputs),
        f \in PartialMaps({"flat"}, StyleFlatInputs)}
FirstPostcode == <<"postcode", 1>>
StyleStores ==
    {[n \in Features |-> IF n = FirstPostcode THEN r ELSE getMockData(n)] :
        r \in StyleRecords}
        \cup {[n \in Features \ {FirstPostcode} |-> getMockData(n)]}

InitStyle ==
    /\ phase = "ready"
    /\ currentYear = 2025
    /\ currentType = "all"
    /\ maxPrice = 5000000
    /\ currentMode = "price"
    /\ currentZoom = MAP_ZOOM_DEFAULT
    /\ boroughData \in StyleStores
    /\ boroughLayer = TRUE
    /\ postcodeLayer = TRUE
    /\ zoomListener = TRUE
    /\ mapLayers = [borough |-> TRUE, postcode |-> FALSE, labels |-> {}]
    /\ activeBoroughGeometry = NullFeature
    /\ turfLoaded = TRUE
    /\ badBorough = NullFeature
    /\ boroughStyle = [b \in Boroughs |-> styleBorough(b)]
    /\ postcodeCall = setStylePostcode
    /\ resolved = valuesOf(TRUE)
    /\ legend = updateLegend
    /\ alerts = 0
    /\ earlyCalls = {}
    /\ lastEvent = Event("load", FALSE)
    /\ lastOps = <<Op("addTo", BoroughTarget, FALSE)>>

NextStyle ==
    \/ \E v \in PriceInputs : PriceInput(v)
    \/ \E y \in YearInputs : YearChange(y)
    \/ \E t \in StyleTypeInputs : TypeChange(t)
    \/ \E b \in Boroughs : BoroughClick(b, 0)

SpecStyle == InitStyle /\ [][NextStyle]_vars

\* ------------------------------------------------------------ properties

OnThreshold(zoom) == zoom >= 11
FocusActive == activeBoroughGeometry # NullFeature

\* the fill color the last handler gave a feature, and whether it resolved one
Fill(f) == IF f \in Boroughs THEN boroughStyle[f].fillColor
           ELSE postcodeCall[f].style.fillColor
Rendered(f) ==
    /\ f \in DOMAIN boroughData
    /\ resolved[f] # NoValue
    /\ currentMode = "price"
OverCeiling(v) == v.num > maxPrice * v.den

\* C1: once the load has succeeded exactly one of the borough layer and the
\* postcode layer is on the map, whatever zoom events, control changes and
\* borough clicks follow; the load itself leaves the borough layer on the map
\* and the postcode layer off it.
C1_ExactlyOneLayer ==
    /\ phase = "ready" => (mapLayers.borough # mapLayers.postcode)
    /\ lastEvent.handler = "load" => (mapLayers.borough /\ ~mapLayers.postcode)

C1_Witness ==
    /\ phase = "ready"
    /\ mapLayers.postcode /\ ~mapLayers.borough
    /\ FocusActive
    /\ currentMode # "price"

\* C2: a zoom notification on the same side of the threshold 11 as the one
\* before it makes no addTo or removeLayer call and leaves the layers and the
\* labels on the map as they were; an upward crossing removes the borough layer
\* and adds the postcode layer and each label once, a downward crossing does the
\* reverse; no call adds what is on the map or removes what is not.
C2_ZoomIdempotent ==
    [][lastEvent'.zoomend =>
          LET up == OnThreshold(currentZoom')
              wasUp == OnThreshold(currentZoom)
          IN /\ (up = wasUp) => (mapLayers' = mapLayers /\ lastOps' = <<>>)
             /\ (up /\ ~wasUp) =>
                   /\ mapLayers' = [borough |-> FALSE, postcode |-> TRUE,
                                    labels |-> Postcodes]
                   /\ lastOps' = <<Op("removeLayer", BoroughTarget, TRUE),
                                   Op("addTo", PostcodeTarget, FALSE)>>
                                 \o [i \in 1..NumPostcodes |->
                                        Op("addTo", <<"label", i>>, FALSE)]
             /\ (wasUp /\ ~up) =>
                   /\ mapLayers' = [borough |-> TRUE, postcode |-> FALSE, labels |-> {}]
                   /\ lastOps' = <<Op("removeLayer", PostcodeTarget, TRUE)>>
                                 \o [i \in 1..NumPostcodes |->
                                        Op("removeLayer", <<"label", i>>, TRUE)]
                                 \o <<Op("addTo", BoroughTarget, FALSE)>>
             /\ \A i \in 1..Len(lastOps') :
                   lastOps'[i].was = (lastOps'[i].op = "removeLayer")]_vars

C2_Witness ==
    /\ lastEvent = Event("zoomend", TRUE)
    /\ lastOps = <<>>
    /\ mapLayers.postcode /\ mapLayers.labels = Postcodes
    /\ currentZoom = 12

\* C3: while a focus borough is set, the style the borough layer's paths carry
\* is the focus style (the focused borough transparent, every other one the
\* grey #f5f5f5, both non-interactive), from the return of the click on.
C3_FocusStyleApplied ==
    (boroughLayer /\ FocusActive) =>
        \A b \in Boroughs :
            boroughStyle[b] = IF b = activeBoroughGeometry
                              THEN Style("transparent", 20, 10, "#666", 0, "false")
                              ELSE Style("#f5f5f5", 10, 10, "#ddd", 5, "false")

\* C4 as claimed: stylePostcode returns the hidden style exactly when a focus is
\* set and the postcode's centre lies outside the focus polygon; without a
\* focus it returns the ordinary style, with a focus and the centre inside the
\* metric fill with the border of weight 1.5 and color #fff.
C4_HiddenIffOutside ==
    \A p \in Postcodes :
        postcodeCall[p].status = "returned" =>
            LET style == postcodeCall[p].style
                outside == FocusActive /\ ~centreInside(p, activeBoroughGeometry)
            IN /\ (style = HiddenStyle) <=> outside
               /\ ~FocusActive => style = getFeatureStyle(p, 9, 10, "#eee", 8)
               /\ (FocusActive /\ ~outside) => style = getFeatureStyle(p, 9, 15, "#fff", 9)

\* C4, amended: stylePostcode returns the hidden style exactly when a focus is
\* set, turf is loaded and booleanPointInPolygon reports the centre outside the
\* focus polygon; without a focus, or without turf, it returns the ordinary
\* style (weight 1, #eee); with a focus, turf and the centre inside, the style
\* of getFeatureStyle with the border of weight 1.5 and color #fff.
C4_HiddenIffTurfOutside ==
    \A p \in Postcodes :
        postcodeCall[p].status # "none" =>
            LET style == postcodeCall[p].style
                test == IF FocusActive /\ turfLoaded
                        THEN booleanPointInPolygon(p, activeBoroughGeometry)
                        ELSE "none"
            IN /\ (postcodeCall[p].status = "returned" /\ style = HiddenStyle)
                      <=> (test = "false")
               /\ test = "none" =>
                      postcodeCall[p] = Returned(getFeatureStyle(p, 9, 10, "#eee", 8))
               /\ test = "true" =>
                      /\ postcodeCall[p] = Returned(getFeatureStyle(p, 9, 15, "#fff", 9))
                      /\ style.weight = 15 /\ style.color = "#fff"

C4_Witness ==
    \E p, q \in Postcodes :
        /\ postcodeCall[p] = Returned(HiddenStyle)
        /\ postcodeCall[q].status = "returned"
        /\ postcodeCall[q].style.weight = 15
        /\ FocusActive

\* C5: getPriceColor compares by strict greater-than from the highest break
\* point down: a value one above a break point gets that break point's color, a
\* value equal to it the color of the bucket below, a value of at most 0 the
\* palest #fed7aa.
C5_RampBoundaries ==
    \A f \in Features :
        (Rendered(f) /\ ~OverCeiling(resolved[f])) =>
            /\ \A i \in 1..Len(PriceBreaks) :
                  /\ RatEq(resolved[f], PriceBreaks[i] + 1) => Fill(f) = RampColors[i]
                  /\ RatEq(resolved[f], PriceBreaks[i]) =>
                        Fill(f) = RampColors[IF i = 1 THEN 1 ELSE i - 1]
            /\ resolved[f].num <= 0 => Fill(f) = "#fed7aa"
            /\ Fill(f) \in {RampColors[i] : i \in 1..Len(RampColors)}

C5_Witness ==
    /\ lastEvent.handler = "control" /\ currentType = "detached"
    /\ RatEq(resolved[FirstPostcode], 1500000)
    /\ Rendered(FirstPostcode)
    /\ Fill(FirstPostcode) = "#7c2d12"
    /\ maxPrice = 5000000

\* C6: in price mode a region with a metric record that no focus override
\* replaces is filled #431407 when its value exceeds maxPrice and with
\* getPriceColor(value) otherwise; the ceiling never hides it.
C6_CeilingOverride ==
    \A f \in Features :
        Rendered(f) =>
            /\ OverCeiling(resolved[f]) => Fill(f) = "#431407"
            /\ ~OverCeiling(resolved[f]) => Fill(f) = getPriceColor(resolved[f])
            /\ Fill(f) # "transparent"

C6_Witness ==
    /\ lastEvent.handler = "control"
    /\ Rendered(FirstPostcode)
    /\ RatEq(resolved[FirstPostcode], 700000)
    /\ maxPrice = 600000
    /\ Fill(FirstPostcode) = "#431407"

\* the values a legend entry stands for: above its grade, below the next one
LegendNext(i) == IF i < Len(LegendGrades) THEN LegendGrades[i + 1] ELSE 10000000
InEntryRange(i, v) == RatGt(v, LegendGrades[i]) /\ v.num < LegendNext(i) * v.den

\* C7: the price legend has 8 entries, one per break point of the ramp, each
\* with the color of getPriceColor(break point + 1), and every value under
\* the ceiling is drawn on the map in the color of the legend entry whose
\* range holds it.
C7_LegendMatchesMap ==
    (phase = "ready" /\ currentMode = "price" /\ legend = updateLegend) =>
        /\ Len(legend) = 8
        /\ \A i \in 1..Len(legend) :
              legend[i].color = getPriceColor(Rat(PriceBreaks[i] + 1, 1))
        /\ \A f \in Features :
              (Rendered(f) /\ ~OverCeiling(resolved[f])) =>
                  \A i \in 1..Len(legend) :
                      InEntryRange(i, resolved[f]) => Fill(f) = legend[i].color

\* C8: when turf cannot evaluate the focus polygon, styling a postcode raises
\* no error and gives it the style of a postcode inside the focus, so the
\* restyle reaches every postcode.
C8_FailOpen ==
    (postcodeLayer /\ FocusActive /\ turfLoaded /\ activeBoroughGeometry = badBorough
        /\ lastEvent.handler \in {"control", "click"}) =>
        \A p \in Postcodes :
            postcodeCall[p] = Returned(getFeatureStyle(p, 9, 15, "#fff", 9))

\* C9: the value resolved in price mode is 0 when the record has no entry for
\* the year, the mean of the entries present for type 'all' (0 for none), a
\* specific type's entry or 0 when it is absent; 2025 / all /
\* {detached: 900000, flat: 500000} gives 700000 and the fill #f97316.
C9_ResolvedValue ==
    \A f \in Features :
        Rendered(f) =>
            LET v == resolved[f]
                byYear == boroughData[f].prices
            IN /\ v.den > 0
               /\ currentYear \notin DOMAIN byYear => v.num = 0
               /\ currentYear \in DOMAIN byYear =>
                     LET prices == byYear[currentYear]
                         n == Cardinality(DOMAIN prices)
                     IN /\ (currentType = "all" /\ n = 0) => v.num = 0
                        /\ (currentType = "all" /\ n > 0) =>
                              v.num * n = v.den * SumValues(prices, DOMAIN prices)
                        /\ (currentType # "all" /\ currentType \in DOMAIN prices) =>
                              v.num = v.den * prices[currentType]
                        /\ (currentType # "all" /\ currentType \notin DOMAIN prices) =>
                              v.num = 0
                        /\ (currentYear = 2025 /\ currentType = "all"
                              /\ prices = ("detached" :> 900000 @@ "flat" :> 500000)) =>
                              /\ RatEq(v, 700000)
                              /\ maxPrice >= 700000 => Fill(f) = "#f97316"

C9_Witness ==
    /\ lastEvent.handler = "control"
    /\ Rendered(FirstPostcode)
    /\ currentYear = 2025 /\ currentType = "all"
    /\ boroughData[FirstPostcode].prices[2025] = ("detached" :> 900000 @@ "flat" :> 500000)
    /\ RatEq(resolved[FirstPostcode], 700000)
    /\ Fill(FirstPostcode) = "#f97316"

\* C10: no core operation runs before the load has succeeded, during the load
\* or after it failed, and a failed load shows exactly one alert.
C10_NoCoreBeforeLoad ==
    /\ earlyCalls = {}
    /\ alerts = IF phase = "failed" THEN 1 ELSE 0

====
